---- MODULE Spec2Model ----
(***************************************************************************)
(* A model of the three Streamlit apps of streamlit-quickstart:            *)
(*   llm-rag-demo/app.py        the RAG question-answering page            *)
(*   cybersyn-financial/app.py  the cached market-data dashboard           *)
(*   */app.py (lines 7-16 etc.) the session acquisition common to all      *)
(*                                                                         *)
(* Text is a sequence of lexical units (words); the units "'" (the         *)
(* apostrophe character) and "Context:" are the ones the code and the      *)
(* prompt templates treat specially.                                       *)
(***************************************************************************)
EXTENDS Integers, Sequences, FiniteSets, TLC

VARIABLES
    \* ---- llm-rag-demo ----
    docs_chunks_table,  \* the warehouse table: sequence of chunk rows
    num_chunks,         \* module constant of app.py:21 (the LIMIT parameter)
    question,           \* st.text_input value of the current script run
    model,              \* st.sidebar.selectbox value
    use_rag,            \* 1 / 0 from the checkbox
    pc,                 \* position of the script run
    df_rows,            \* df_context: for each of its rows, the table row behind it
    prompt_context,     \* local of create_prompt
    relative_path,      \* local of create_prompt / complete / display_response
    url_link,           \* local of create_prompt / complete / display_response
    prompt,             \* local of create_prompt
    df_response,        \* result of the completion query
    rendered,           \* what st.markdown has put on the page in this run
    queries,            \* the session.sql calls of display_response, in order
    err,                \* the exception that ended the run, or "none"
    \* ---- cybersyn-financial ----
    stock_table,        \* STOCK_PRICE_TIMESERIES: set of source rows
    fx_table,           \* FX_RATES_TIMESERIES: set of source rows
    cache,              \* the entry st.cache_data holds for load_data: <<>> or <<frames>>
    df_stocks,          \* script global of line 56
    df_fx,              \* script global of line 56
    fpc,                \* position of the script run
    chart,              \* what the selected page has charted in this run
    load_runs,          \* how often the body of load_data has been executed (to MaxLoadRuns)
    first_result,       \* what the first returning call of load_data returned
    ferr,               \* the exception that ended the run, or "none"
    rewritten,          \* line 61 has rewritten the DATE column of a returned frame
    \* ---- session acquisition at the top of every app ----
    app,                \* which app.py is starting
    ambient,            \* the session the host runtime supplies: <<>> or <<session>>
    config_file,        \* ../config.toml: <<>> (no such file) or <<its content>>
    handshake_ok,       \* whether the warehouse accepts a new connection
    spc,                \* position in the try / except of the startup
    session,            \* the module global `session`: <<>> while unbound
    config_reads,       \* how often ../config.toml has been opened
    connects,           \* how often Session.builder...create() has been called
    serr                \* the exception that ended the startup, or "none"

ragvars == <<docs_chunks_table, num_chunks, question, model, use_rag, pc, df_rows,
             prompt_context, relative_path, url_link, prompt, df_response,
             rendered, queries, err>>

finvars == <<stock_table, fx_table, cache, df_stocks, df_fx, fpc, chart, load_runs,
             first_result, ferr, rewritten>>

sessvars == <<app, ambient, config_file, handshake_ok, spc, session, config_reads,
              connects, serr>>

vars == <<ragvars, finvars, sessvars>>

\* ------------------------------------------------------------------ bounds
MaxChunks == 3        \* rows of docs_chunks_table
MaxNumChunks == 3     \* values tried for num_chunks (the source sets 3)
MaxStockRows == 3     \* source rows of the stock table
MaxFxRows == 2        \* source rows of the FX table
MaxLoadRuns == 3      \* executions of the body of load_data that are counted

\* ------------------------------------------------------------------ inputs
\* The documents of the stage: one chunk text per document.
Docs ==
    { [RELATIVE_PATH |-> "d1.pdf", CHUNK |-> <<"oil">>],
      [RELATIVE_PATH |-> "d2.pdf", CHUNK |-> <<"it", "'", "s">>] }

\* Cosine similarity of a chunk to the question, as a rank value.
Sims == {1, 2}

ChunkRows ==
    { [RELATIVE_PATH |-> d.RELATIVE_PATH, CHUNK |-> d.CHUNK, similarity |-> s] :
        d \in Docs, s \in Sims }

Tables == UNION { [1..n -> ChunkRows] : n \in 0..MaxChunks }

Questions == { <<>>, <<"lubricant">>, <<"Context:", "lubricant">> }

Models == { "mixtral-8x7b", "snowflake-arctic" }

\* ---------------------------------------------------------------- helpers
Min(a, b) == IF a < b THEN a ELSE b

\* All orderings of the elements of the set S.
Orderings(S) ==
    { s \in [1..Cardinality(S) -> S] :
        \A i, j \in 1..Cardinality(S) : i # j => s[i] # s[j] }

Contains(text, unit) == \E i \in DOMAIN text : text[i] = unit

\* ------------------------------------------------- the similarity query
\* "order by similarity desc limit ?": the row sets the CTE `results` may hold.
TopKSets(T, k) ==
    { S \in SUBSET (DOMAIN T) :
        /\ Cardinality(S) = Min(k, Len(T))
        /\ \A i \in S, j \in (DOMAIN T) \ S : T[i].similarity >= T[j].similarity }

\* The CTE `results`: its rows in the order of the ORDER BY (ties in any order).
ResultsCTE(T, k) ==
    { s \in UNION { Orderings(S) : S \in TopKSets(T, k) } :
        \A i, j \in DOMAIN s : i < j => T[s[i]].similarity >= T[s[j]].similarity }

\* "select chunk, relative_path from results": the outer query has no ORDER BY,
\* so the engine may deliver the rows of `results` in any order.
SelectFromResults(r) == Orderings({ r[i] : i \in DOMAIN r })

\* session.sql(cmd, params=[myquestion, num_chunks]).to_pandas(): the frames the
\* call may return, each as the sequence of table rows behind its local rows.
SimilarityQuery(T, k) == UNION { SelectFromResults(r) : r \in ResultsCTE(T, k) }

\* df_context._get_value(i, col), i counted from 0 as in the source.
GetValue(T, df, i, col) == T[df[i + 1]][col]

\* ------------------------------------------------------- create_prompt
\* lines 49-51: prompt_context += df_context._get_value(i, 'CHUNK'), i in range(0, n)
RECURSIVE ConcatChunks(_, _, _)
ConcatChunks(T, df, n) ==
    IF n <= 0 THEN <<>>
    ELSE ConcatChunks(T, df, n - 1) \o GetValue(T, df, n - 1, "CHUNK")

\* line 53: prompt_context.replace("'", "")
RemoveApostrophes(text) == SelectSeq(text, LAMBDA u : u # "'")

\* lines 47-53
PromptContext(T, df) == RemoveApostrophes(ConcatChunks(T, df, Len(df) - 1))

\* lines 58-66
PromptWithContext(ctx, q) ==
    <<"'", "You are an expert assistance extracting information from context provided.",
      "Context:">> \o ctx \o <<"Question:">> \o q \o <<"Answer:", "'">>

\* lines 73-77
PromptQuestionOnlyLabelled(q) ==
    <<"'", "Context:", "Question:">> \o q \o <<"Answer:", "'">>
PromptQuestionOnly(q) == <<"'", "Question:">> \o q \o <<"Answer:", "'">>

\* lines 68-70: GET_PRESIGNED_URL(@docs, relative_path, 360), as text
PresignedUrl(path) == <<"https://stage/docs/", path, "?expires=360">>

\* lines 78-79: url_link = "None", relative_path = "None"
NoneUrl == <<"None">>
NonePath == "None"

\* SNOWFLAKE.CORTEX.COMPLETE(model, prompt): the rows collect() returns
CompleteQuery(m, p) == << [RESPONSE |-> <<"answer of", m>>] >>

\* line 98: the markdown of the document link
DisplayUrl(path, url) == [kind |-> "link", path |-> path, url |-> url]

\* line 96: the markdown of the response text
DisplayText(text) == [kind |-> "text", text |-> text]

\* line 97: if rag == 1
LinkShownAlways(rag) == TRUE
LinkShown(rag) == rag = 1

\* session.sql(...) is called once for each statement: lines 42, 69, 90, 106
IssueQueryWithRetry(log, q) == Append(Append(log, q), q)
IssueQuery(log, q) == Append(log, q)

\* ------------------------------------------------------- the RAG script
InitRag ==
    /\ docs_chunks_table \in Tables
    /\ num_chunks \in 1..MaxNumChunks
    /\ question = <<>>
    /\ model \in Models
    /\ use_rag = 0
    /\ pc = "start"
    /\ df_rows = <<>>
    /\ prompt_context = <<>>
    /\ relative_path = ""
    /\ url_link = <<>>
    /\ prompt = <<>>
    /\ df_response = <<>>
    /\ rendered = <<>>
    /\ queries = <<>>
    /\ err = "none"
    /\ stock_table = {} /\ fx_table = {}
    /\ cache = <<>>
    /\ df_stocks = [date_dtype |-> "object", rows |-> {}]
    /\ df_fx = {}
    /\ fpc = "start"
    /\ chart = [page |-> "none", selection |-> {}, rows |-> {}]
    /\ load_runs = 0
    /\ first_result = <<>>
    /\ ferr = "none"
    /\ rewritten = FALSE
    /\ app = "llm-rag-demo"
    /\ ambient = <<>> /\ handshake_ok = TRUE
    /\ config_file = <<[default_connection |-> "dev", connections |-> {"dev"}]>>
    /\ spc = "done"
    /\ session = <<[profile |-> "dev"]>>
    /\ config_reads = 1 /\ connects = 1
    /\ serr = "none"

\* A script run: a first run or the rerun a widget change triggers. Lines 103-136
\* up to the call of display_response; every local of the previous run is gone.
ScriptRun ==
    /\ pc \in {"start", "done", "error", "stopped"}
    /\ \E q \in Questions, m \in Models, r \in {0, 1},
          outcome \in {"ok", "QueryError", "stopped at 103", "stopped at 110"} :
        /\ question' = q
        /\ model' = m
        /\ use_rag' = r
        /\ queries' = IF outcome = "stopped at 103" THEN <<>>
                      ELSE IssueQuery(<<>>, "ls @docs")
        /\ err' = IF outcome = "QueryError" THEN "QueryError" ELSE "none"
        /\ pc' = CASE outcome = "QueryError" -> "error"
                   [] outcome \in {"stopped at 103", "stopped at 110"} -> "stopped"
                   [] OTHER -> IF q # <<>> THEN "create_prompt" ELSE "done"
    /\ df_rows' = <<>>
    /\ prompt_context' = <<>>
    /\ relative_path' = ""
    /\ url_link' = <<>>
    /\ prompt' = <<>>
    /\ df_response' = <<>>
    /\ rendered' = <<>>
    /\ UNCHANGED <<docs_chunks_table, num_chunks>>
    /\ UNCHANGED <<finvars, sessvars>>

\* create_prompt, rag == 1, lines 27-66: the similarity query and the local
\* assembly of context, path and prompt.
CreatePromptRetrieve ==
    /\ pc = "create_prompt"
    /\ use_rag = 1
    /\ queries' = IssueQuery(queries, "similarity")
    /\ \/ \* the query fails
          /\ err' = "QueryError"
          /\ pc' = "error"
          /\ UNCHANGED <<df_rows, prompt_context, relative_path, prompt>>
       \/ \E df \in SimilarityQuery(docs_chunks_table, num_chunks) :
          /\ df_rows' = df
          /\ prompt_context' = PromptContext(docs_chunks_table, df)
          /\ IF Len(df) = 0
             THEN \* line 56: _get_value(0, ...) of an empty frame
                  /\ err' = "KeyError"
                  /\ pc' = "error"
                  /\ UNCHANGED <<relative_path, prompt>>
             ELSE /\ relative_path' = GetValue(docs_chunks_table, df, 0, "RELATIVE_PATH")
                  /\ prompt' = PromptWithContext(
                                  PromptContext(docs_chunks_table, df), question)
                  /\ err' = "none"
                  /\ pc' = "presign"
    /\ UNCHANGED <<docs_chunks_table, num_chunks, question, model, use_rag,
                   url_link, df_response, rendered>>
    /\ UNCHANGED <<finvars, sessvars>>

\* create_prompt, rag == 1, lines 68-70, and the return of line 81.
CreatePromptPresign ==
    /\ pc = "presign"
    /\ queries' = IssueQuery(queries, "presigned_url")
    /\ \E outcome \in {"row", "no row", "QueryError"} :
        IF outcome = "row"
        THEN /\ url_link' = PresignedUrl(relative_path)
             /\ pc' = "complete"
             /\ err' = "none"
        ELSE \* the statement fails, or directory(@docs) is empty and line 70,
             \* _get_value(0, 'URL_LINK'), finds no row
             /\ err' = IF outcome = "no row" THEN "KeyError" ELSE "QueryError"
             /\ pc' = "error"
             /\ UNCHANGED url_link
    /\ UNCHANGED <<docs_chunks_table, num_chunks, question, model, use_rag, df_rows,
                   prompt_context, relative_path, prompt, df_response, rendered>>
    /\ UNCHANGED <<finvars, sessvars>>

\* create_prompt, rag != 1, lines 72-81.
CreatePromptQuestionOnly ==
    /\ pc = "create_prompt"
    /\ use_rag # 1
    /\ prompt' = PromptQuestionOnly(question)
    /\ url_link' = NoneUrl
    /\ relative_path' = NonePath
    /\ pc' = "complete"
    /\ UNCHANGED <<docs_chunks_table, num_chunks, question, model, use_rag, df_rows,
                   prompt_context, df_response, rendered, queries, err>>
    /\ UNCHANGED <<finvars, sessvars>>

\* complete, lines 86-91.
Complete ==
    /\ pc = "complete"
    /\ queries' = IssueQuery(queries, "complete")
    /\ \E ok \in BOOLEAN :
        IF ok
        THEN /\ df_response' = CompleteQuery(model, prompt)
             /\ pc' = "render"
             /\ err' = "none"
        ELSE /\ err' = "ServiceError"
             /\ pc' = "error"
             /\ UNCHANGED df_response
    /\ UNCHANGED <<docs_chunks_table, num_chunks, question, model, use_rag, df_rows,
                   prompt_context, relative_path, url_link, prompt, rendered>>
    /\ UNCHANGED <<finvars, sessvars>>

\* display_response, lines 95-97: the response text is put on the page.
DisplayResponse ==
    /\ pc = "render"
    /\ rendered' = <<DisplayText(df_response[1].RESPONSE)>>
    /\ pc' = IF LinkShown(use_rag) THEN "render_link" ELSE "done"
    /\ UNCHANGED <<docs_chunks_table, num_chunks, question, model, use_rag, df_rows,
                   prompt_context, relative_path, url_link, prompt, df_response,
                   queries, err>>
    /\ UNCHANGED <<finvars, sessvars>>

\* display_response, lines 98-99: the link is put on the page.
DisplayResponseLink ==
    /\ pc = "render_link"
    /\ rendered' = Append(rendered, DisplayUrl(relative_path, url_link))
    /\ pc' = "done"
    /\ UNCHANGED <<docs_chunks_table, num_chunks, question, model, use_rag, df_rows,
                   prompt_context, relative_path, url_link, prompt, df_response,
                   queries, err>>
    /\ UNCHANGED <<finvars, sessvars>>

\* A rerun request is pending when st.markdown is called (line 96 or line 99):
\* the host runtime ends the script run there, without an error.
RerunStopsDisplay ==
    /\ pc \in {"render", "render_link"}
    /\ pc' = "stopped"
    /\ UNCHANGED <<docs_chunks_table, num_chunks, question, model, use_rag, df_rows,
                   prompt_context, relative_path, url_link, prompt, df_response,
                   rendered, queries, err>>
    /\ UNCHANGED <<finvars, sessvars>>

NextRag ==
    \/ ScriptRun
    \/ CreatePromptRetrieve
    \/ CreatePromptPresign
    \/ CreatePromptQuestionOnly
    \/ Complete
    \/ DisplayResponse
    \/ DisplayResponseLink
    \/ RerunStopsDisplay

SpecRag == InitRag /\ [][NextRag]_vars

\* ------------------------------------------------- properties of the RAG app
Table == docs_chunks_table

\* create_prompt has assembled a prompt in this run.
PromptAssembled == prompt # <<>>

Issued(q) == \E i \in DOMAIN queries : queries[i] = q

\* The similarity query of this run has returned a frame with at least one row.
Retrieved ==
    use_rag = 1 /\ Issued("similarity") /\ pc \in {"presign", "complete", "render", "render_link", "done", "stopped"}

\* The chunk texts of the first n rows of the ranking r, concatenated.
RECURSIVE RankedText(_, _)
RankedText(r, n) ==
    IF n <= 0 THEN <<>> ELSE RankedText(r, n - 1) \o Table[r[n]].CHUNK

\* C1 (as claimed): with rag = 1 and a corpus of at least num_chunks chunks, the
\* context string is the text of the top (num_chunks - 1) chunks of the similarity
\* ranking, in rank order, without the chunk of rank num_chunks, and relative_path
\* is the path of the rank-1 chunk.
C1_ContextIsTopRanked ==
    (Retrieved /\ Len(Table) >= num_chunks) =>
        \E r \in ResultsCTE(Table, num_chunks) :
            /\ prompt_context = RankedText(r, num_chunks - 1)
            /\ relative_path = Table[r[1]].RELATIVE_PATH

\* C2 (as claimed): a QUESTION_ONLY prompt never contains the word "Context:",
\* a WITH_CONTEXT prompt always does.
C2_ContextWordByMode ==
    PromptAssembled =>
        /\ use_rag = 1 => Contains(prompt, "Context:")
        /\ use_rag # 1 => ~Contains(prompt, "Context:")

\* C2 (amended): a WITH_CONTEXT prompt always contains the word "Context:"; a
\* QUESTION_ONLY prompt contains it exactly when the question itself does.
C2_ContextWordUnlessInQuestion ==
    PromptAssembled =>
        /\ use_rag = 1 => Contains(prompt, "Context:")
        /\ use_rag # 1 => (Contains(prompt, "Context:") <=> Contains(question, "Context:"))

C2_Witness ==
    /\ pc = "complete" /\ use_rag = 0
    /\ ~Contains(question, "Context:") /\ ~Contains(prompt, "Context:")

\* C3 (as claimed): the rows of df_context, in their local order, are at most
\* num_chunks and of non-increasing similarity to the question.
C3_RetrievalSorted ==
    Retrieved =>
        /\ Len(df_rows) <= num_chunks
        /\ \A i, j \in DOMAIN df_rows :
              i < j => Table[df_rows[i]].similarity >= Table[df_rows[j]].similarity

\* C4: in QUESTION_ONLY mode no similarity query and no presigned-URL query is
\* issued, the link and the path returned are the sentinel "None", and no link is
\* rendered; a link is rendered only after the similarity query.
HasLink(page) == \E i \in DOMAIN page : page[i].kind = "link"

C4_NoLinkWithoutRetrieval ==
    /\ use_rag # 1 =>
          /\ ~Issued("similarity") /\ ~Issued("presigned_url")
          /\ pc \in {"complete", "render", "done"} /\ question # <<>> =>
                url_link = NoneUrl /\ relative_path = NonePath
          /\ ~HasLink(rendered)
    /\ HasLink(rendered) => Issued("similarity") /\ Issued("presigned_url")

C4_Witness ==
    /\ use_rag = 0 /\ pc = "done" /\ question # <<>>
    /\ rendered # <<>> /\ url_link = NoneUrl

\* C5 (as claimed): with an empty corpus the similarity query returns no row, and
\* create_prompt then has an empty context and the null path, and no error.
C5_EmptyCorpusSentinel ==
    ( /\ use_rag = 1 /\ Len(Table) = 0 /\ Issued("similarity")
      /\ err # "QueryError" ) =>
        /\ err = "none"
        /\ prompt_context = <<>>
        /\ relative_path = NonePath

\* ---- C9
IsPrefix(s, t) == Len(s) <= Len(t) /\ \A i \in DOMAIN s : s[i] = t[i]

ExpectedQueries ==
    IF use_rag = 1
    THEN <<"ls @docs", "similarity", "presigned_url", "complete">>
    ELSE <<"ls @docs", "complete">>

\* The whole response: the text and, with rag, the link.
FullResponse ==
    IF use_rag = 1
    THEN <<DisplayText(df_response[1].RESPONSE), DisplayUrl(relative_path, url_link)>>
    ELSE <<DisplayText(df_response[1].RESPONSE)>>

RunOver == pc \in {"done", "error", "stopped"}

\* C9 (as claimed): the queries of one interaction are a prefix of similarity,
\* presigned_url, complete (of complete alone without rag), each issued once; a
\* run that is over shows the whole response or nothing of it, the whole of it
\* when it ended well and nothing when it ended in an error.
C9_AllOrNothing ==
    /\ IsPrefix(queries, ExpectedQueries)
    /\ pc = "error" => rendered = <<>>
    /\ pc = "done" /\ question # <<>> => rendered = FullResponse
    /\ RunOver /\ rendered # <<>> =>
          rendered = FullResponse /\ err = "none" /\ queries = ExpectedQueries

\* C9 (amended): the queries are issued once each, in that order; a run that
\* ended in an error shows nothing of the response, a run that ended well shows
\* the whole of it, and only a run that a rerun request ended at the second
\* st.markdown shows the response text without its link.
C9_AllOrNothingUnlessStopped ==
    /\ IsPrefix(queries, ExpectedQueries)
    /\ pc = "error" => rendered = <<>>
    /\ pc = "done" /\ question # <<>> => rendered = FullResponse
    /\ rendered # <<>> =>
          /\ err = "none" /\ queries = ExpectedQueries
          /\ \/ rendered = FullResponse
             \/ /\ use_rag = 1 /\ pc \in {"render_link", "stopped"}
                /\ rendered = <<DisplayText(df_response[1].RESPONSE)>>

C9_Witness ==
    /\ pc = "error" /\ err = "ServiceError" /\ use_rag = 1
    /\ queries = ExpectedQueries /\ rendered = <<>>

\* ===================================================== cybersyn-financial
\* A numeric cell is <<>> (NULL) or <<v>>; a quotient is <<>> or <<num, den>>.
NULL == <<>>

Magnificent7 == {"AAPL", "MSFT", "AMZN", "GOOGL", "META", "TSLA", "NVDA"}
StockVariables == {"Nasdaq Volume", "Post-Market Close"}

\* The rows the stock table is drawn from: two listed tickers and one that is
\* not listed, closes (0 among them), a volume and a measure that is not loaded.
\* line 66: timedelta(days=30)
DefaultDays == 30

\* Day numbers of the observations: two neighbouring days and one that lies
\* DefaultDays after the second.
StockDates == {1, 2, 2 + DefaultDays}

StockUniverse ==
    { [TICKER |-> t, DATE |-> d, VARIABLE_NAME |-> "Post-Market Close", VALUE |-> v] :
        t \in {"AAPL", "MSFT"}, d \in StockDates, v \in 1..2 }
    \cup
    { [TICKER |-> "AAPL", DATE |-> 1, VARIABLE_NAME |-> "Post-Market Close", VALUE |-> 0],
      [TICKER |-> "AAPL", DATE |-> 2, VARIABLE_NAME |-> "Nasdaq Volume", VALUE |-> 2],
      [TICKER |-> "MSFT", DATE |-> 1, VARIABLE_NAME |-> "Pre-Market Open", VALUE |-> 2],
      [TICKER |-> "IBM", DATE |-> 2, VARIABLE_NAME |-> "Post-Market Close", VALUE |-> 1] }

StockTables == { T \in SUBSET StockUniverse : Cardinality(T) <= MaxStockRows }

StockSample ==
    { [TICKER |-> "AAPL", DATE |-> 2, VARIABLE_NAME |-> "Post-Market Close", VALUE |-> 1],
      [TICKER |-> "AAPL", DATE |-> 2 + DefaultDays, VARIABLE_NAME |-> "Post-Market Close",
       VALUE |-> 2] }

\* '2019-01-01' as a day number (days since 1970-01-01)
MinFxDate == 17897

FxCurrencies ==
    {"British Pound Sterling", "Canadian Dollar", "United States Dollar", "Japanese Yen",
     "Polish Zloty", "Turkish Lira", "Swiss Franc"}
FxDefault ==
    {"British Pound Sterling", "Canadian Dollar", "United States Dollar", "Swiss Franc",
     "Polish Zloty"}

FxUniverse ==
    { [BASE_CURRENCY_ID |-> b, QUOTE_CURRENCY_NAME |-> q, DATE |-> d,
       VARIABLE_NAME |-> "rate", VALUE |-> 1] :
        b \in {"EUR", "USD"},
        q \in {"British Pound Sterling", "Japanese Yen", "Indian Rupee"},
        d \in {MinFxDate - 1, MinFxDate, MinFxDate + 1} }

FxTables == { T \in SUBSET FxUniverse : Cardinality(T) <= MaxFxRows }

FxSample ==
    { [BASE_CURRENCY_ID |-> "EUR", QUOTE_CURRENCY_NAME |-> "Japanese Yen",
       DATE |-> MinFxDate, VARIABLE_NAME |-> "rate", VALUE |-> 1] }

\* ------------------------------------------------------------- load_data
\* lines 32-34: the filter on TICKER and VARIABLE_NAME
StockFilter(T) ==
    { r \in T : r.TICKER \in Magnificent7 /\ r.VARIABLE_NAME \in StockVariables }

SetMax(S) == CHOOSE m \in S : \A x \in S : x <= m
SetMin(S) == CHOOSE m \in S : \A x \in S : m <= x

\* lines 37-38: max(when(col("VARIABLE_NAME") == name, col("VALUE"))) of a group
MaxWhen(group, name) ==
    LET vals == { r.VALUE : r \in { g \in group : g.VARIABLE_NAME = name } }
    IN  IF vals = {} THEN NULL ELSE <<SetMax(vals)>>

\* lines 35-39: groupBy("TICKER", "DATE").agg(...)
StockGroups(T) ==
    LET F == StockFilter(T)
        keys == { <<r.TICKER, r.DATE>> : r \in F }
    IN  { [TICKER |-> k[1], DATE |-> k[2],
           NASDAQ_VOLUME |->
               MaxWhen({ r \in F : r.TICKER = k[1] /\ r.DATE = k[2] }, "Nasdaq Volume"),
           POSTMARKET_CLOSE |->
               MaxWhen({ r \in F : r.TICKER = k[1] /\ r.DATE = k[2] }, "Post-Market Close")] :
          k \in keys }

\* line 43: Window.partitionBy("TICKER"): the partition of a row
PartitionAll(G, row) == G
WindowPartition(G, row) == { r \in G : r.TICKER = row.TICKER }

\* line 43: .orderBy("DATE"): a partition as a sequence of ascending DATE
OrderByDate(P) ==
    CHOOSE s \in Orderings(P) : \A i, j \in DOMAIN s : i < j => s[i].DATE <= s[j].DATE

\* lines 45-46: lag(col("POSTMARKET_CLOSE"), 1).over(window_spec) at a row
LagClose(G, row) ==
    LET s == OrderByDate(WindowPartition(G, row))
        i == CHOOSE n \in DOMAIN s : s[n] = row
    IN  IF i = 1 THEN NULL ELSE s[i - 1].POSTMARKET_CLOSE

\* lines 45-46: (close - lag) / lag; NULL when an operand is NULL
DayOverDayChange(close, lagged) ==
    IF close = NULL \/ lagged = NULL THEN NULL
    ELSE <<close[1] - lagged[1], lagged[1]>>

\* lines 44-47: withColumn("DAY_OVER_DAY_CHANGE", ...)
StockRows(T) ==
    LET G == StockGroups(T)
    IN  { [TICKER |-> g.TICKER, DATE |-> g.DATE, NASDAQ_VOLUME |-> g.NASDAQ_VOLUME,
           POSTMARKET_CLOSE |-> g.POSTMARKET_CLOSE,
           DAY_OVER_DAY_CHANGE |-> DayOverDayChange(g.POSTMARKET_CLOSE, LagClose(G, g))] :
          g \in G }

\* The warehouse fails the statement of lines 45-46 when a divisor is 0.
DivisionByZero(rows) ==
    \E r \in rows : r.DAY_OVER_DAY_CHANGE # NULL /\ r.DAY_OVER_DAY_CHANGE[2] = 0

\* lines 50-51: the filter of the FX table and the renamed column
FxFilterBaseOnly(T) == { r \in T : r.BASE_CURRENCY_ID = "EUR" }
FxFilter(T) == { r \in T : r.BASE_CURRENCY_ID = "EUR" /\ r.DATE >= MinFxDate }

FxRows(T) ==
    { [BASE_CURRENCY_ID |-> r.BASE_CURRENCY_ID, QUOTE_CURRENCY_NAME |-> r.QUOTE_CURRENCY_NAME,
       DATE |-> r.DATE, EXCHANGE_RATE |-> r.VARIABLE_NAME, VALUE |-> r.VALUE] :
      r \in FxFilter(T) }

\* line 53: the two frames; to_pandas() delivers DATE as date objects
LoadData(S, F) ==
    [stocks |-> [date_dtype |-> "object", rows |-> StockRows(S)], fx |-> FxRows(F)]

\* line 27, @st.cache_data(): a call hands out a copy of the stored value, so a
\* change of a frame a call returned leaves the stored value as it is.
CacheSharesFrame(entry, stocks) ==
    IF entry = <<>> THEN entry ELSE <<[entry[1] EXCEPT !.stocks = stocks]>>
CacheAfterFrameChange(entry, stocks) == entry

\* ---------------------------------------------------------- stock_prices
Timestamp(d) == [day |-> d, ns |-> 0]
TsLeq(a, b) == a.day < b.day \/ (a.day = b.day /\ a.ns <= b.ns)

\* line 61: df_stocks['DATE'] = pd.to_datetime(df_stocks['DATE'])
ToDatetime(frame) ==
    IF frame.date_dtype = "datetime64[ns]" THEN frame
    ELSE [date_dtype |-> "datetime64[ns]",
          rows |-> { [r EXCEPT !.DATE = Timestamp(r.DATE)] : r \in frame.rows }]

Metrics == {"DAY_OVER_DAY_CHANGE", "POSTMARKET_CLOSE", "NASDAQ_VOLUME"}

\* lines 74-91: the rows of the line chart
StockChart(frame, start, end, tickers, metric) ==
    LET inrange == { r \in frame.rows :
                       TsLeq(Timestamp(start), r.DATE) /\ TsLeq(r.DATE, Timestamp(end)) }
    IN  { [TICKER |-> r.TICKER, DATE |-> r.DATE, y |-> r[metric]] :
            r \in { x \in inrange : x.TICKER \in tickers } }

\* line 77: unique_tickers of the rows in the date range
UniqueTickers(frame, start, end) ==
    { r.TICKER : r \in { x \in frame.rows :
                           TsLeq(Timestamp(start), x.DATE) /\ TsLeq(x.DATE, Timestamp(end)) } }

\* ------------------------------------------------------------- fx_rates
\* line 104
CurrenciesList(selected) == IF Cardinality(selected) = 0 THEN FxCurrencies ELSE selected

\* lines 105-114
FxChart(fx, selected) == { r \in fx : r.QUOTE_CURRENCY_NAME \in CurrenciesList(selected) }

FxSelections == { {}, FxDefault, {"Japanese Yen"}, {"Turkish Lira"} }

NoChart == [page |-> "none", selection |-> {}, rows |-> {}]
NoFrame == [date_dtype |-> "object", rows |-> {}]

\* ------------------------------------------------- the dashboard script
FinIdle ==
    /\ cache = <<>>
    /\ df_stocks = NoFrame
    /\ df_fx = {}
    /\ fpc = "start"
    /\ chart = NoChart
    /\ load_runs = 0
    /\ first_result = <<>>
    /\ ferr = "none"
    /\ rewritten = FALSE

\* line 56 of a script run, load_data() answered by st.cache_data from its entry.
LoadDataCached ==
    /\ fpc \in {"start", "done", "error", "stopped"}
    /\ cache # <<>>
    /\ df_stocks' = cache[1].stocks
    /\ df_fx' = cache[1].fx
    /\ first_result' = IF first_result = <<>> THEN <<cache[1]>> ELSE first_result
    /\ fpc' = "loaded"
    /\ ferr' = "none"
    /\ chart' = NoChart
    /\ UNCHANGED <<stock_table, fx_table, cache, load_runs, rewritten>>
    /\ UNCHANGED <<ragvars, sessvars>>

\* line 56 of a script run with no entry stored: the body of load_data runs
\* (lines 30-53) inside the spinner of st.cache_data. A call that raises stores
\* nothing; a call that succeeds stores its frames before the spinner is
\* cleared. Clearing the spinner is a st.* call: with a rerun request pending it
\* ends the run without an error, whether the body raised or not, and line 56
\* binds no frames. load_runs counts the executions up to MaxLoadRuns.
LoadDataRun ==
    /\ fpc \in {"start", "done", "error", "stopped"}
    /\ cache = <<>>
    /\ load_runs' = Min(load_runs + 1, MaxLoadRuns)
    /\ \E ok \in BOOLEAN, rerun_pending \in BOOLEAN :
        LET frames == LoadData(stock_table, fx_table) IN
        IF ok /\ ~DivisionByZero(frames.stocks.rows)
        THEN /\ cache' = <<frames>>
             /\ ferr' = "none"
             /\ IF rerun_pending
                THEN /\ fpc' = "stopped"
                     /\ UNCHANGED <<df_stocks, df_fx, first_result>>
                ELSE /\ fpc' = "loaded"
                     /\ df_stocks' = frames.stocks
                     /\ df_fx' = frames.fx
                     /\ first_result' =
                          IF first_result = <<>> THEN <<frames>> ELSE first_result
        ELSE /\ IF rerun_pending
                THEN fpc' = "stopped" /\ ferr' = "none"
                ELSE fpc' = "error" /\ ferr' = "QueryError"
             /\ UNCHANGED <<cache, df_stocks, df_fx, first_result>>
    /\ chart' = NoChart
    /\ UNCHANGED <<stock_table, fx_table, rewritten>>
    /\ UNCHANGED <<ragvars, sessvars>>

\* A pending rerun request ends the run before line 56 returns: at
\* st.set_page_config (line 13) or at the placeholder st.cache_data opens for its
\* spinner before it runs the body of load_data (line 56). Nothing is loaded,
\* counted or stored, and the run binds no frames.
RerunStopsLoad ==
    /\ fpc \in {"start", "done", "error", "stopped"}
    /\ fpc' = "stopped"
    /\ ferr' = "none"
    /\ df_stocks' = NoFrame
    /\ df_fx' = {}
    /\ chart' = NoChart
    /\ UNCHANGED <<stock_table, fx_table, cache, load_runs, first_result, rewritten>>
    /\ UNCHANGED <<ragvars, sessvars>>

\* stock_prices, lines 58-92, the page selected by default. Line 61 rewrites the
\* frame; lines 62-69 offer the date range, with [max_date - 30 days, max_date]
\* as its default, which st.date_input rejects when it starts before min_value;
\* the widget returns fewer than two dates while the user has picked only the
\* first; a pending rerun request ends the run at one of the st.* calls of
\* lines 69-92.
StockPrices ==
    /\ fpc = "loaded"
    /\ LET frame == ToDatetime(df_stocks)
           days == { r.DATE.day : r \in frame.rows }
       IN
       /\ df_stocks' = frame
       /\ rewritten' = TRUE
       /\ cache' = CacheAfterFrameChange(cache, frame)
       /\ IF days = {}
          THEN \* lines 62-69: no date range to offer
               /\ ferr' = "ValueError"
               /\ fpc' = "error"
               /\ UNCHANGED chart
          ELSE IF SetMax(days) - DefaultDays < SetMin(days)
          THEN \* line 69: the default start lies before min_value
               /\ ferr' = "StreamlitAPIException"
               /\ fpc' = "error"
               /\ UNCHANGED chart
          ELSE \/ \* line 69: one date picked, the unpacking fails
                  /\ ferr' = "ValueError"
                  /\ fpc' = "error"
                  /\ UNCHANGED chart
               \/ \* the run is ended at a st.* call of lines 69-92
                  /\ ferr' = "none"
                  /\ fpc' = "stopped"
                  /\ UNCHANGED chart
               \/ \* the default range or one the user picked between the
                  \* earliest and the latest date
                  \E start \in days \cup {SetMax(days) - DefaultDays},
                     end \in days \cup {SetMax(days) - DefaultDays},
                     metric \in Metrics :
                  /\ start <= end
                  /\ \E tickers \in SUBSET UniqueTickers(frame, start, end) :
                       chart' = [page |-> "stocks", selection |-> tickers,
                                 rows |-> StockChart(frame, start, end, tickers, metric)]
                  /\ fpc' = "done"
                  /\ ferr' = "none"
    /\ UNCHANGED <<stock_table, fx_table, df_fx, load_runs, first_result>>
    /\ UNCHANGED <<ragvars, sessvars>>

\* A pending rerun request ends the run at a st.* call between line 56 and the
\* first effect of the page function (lines 59, 95-100, 118-125).
RerunStopsPage ==
    /\ fpc = "loaded"
    /\ fpc' = "stopped"
    /\ UNCHANGED <<stock_table, fx_table, cache, df_stocks, df_fx, chart, load_runs,
                   first_result, ferr, rewritten>>
    /\ UNCHANGED <<ragvars, sessvars>>

\* fx_rates, lines 94-115.
FxRates ==
    /\ fpc = "loaded"
    /\ \E selected \in FxSelections :
         chart' = [page |-> "fx", selection |-> selected, rows |-> FxChart(df_fx, selected)]
    /\ fpc' = "done"
    /\ UNCHANGED <<stock_table, fx_table, cache, df_stocks, df_fx, load_runs,
                   first_result, ferr, rewritten>>
    /\ UNCHANGED <<ragvars, sessvars>>

NextFin ==
    \/ RerunStopsLoad
    \/ LoadDataCached
    \/ LoadDataRun
    \/ StockPrices
    \/ FxRates
    \/ RerunStopsPage

RagIdle ==
    /\ docs_chunks_table = <<>>
    /\ num_chunks = 3
    /\ question = <<>>
    /\ model = "mixtral-8x7b"
    /\ use_rag = 0
    /\ pc = "start"
    /\ df_rows = <<>>
    /\ prompt_context = <<>>
    /\ relative_path = ""
    /\ url_link = <<>>
    /\ prompt = <<>>
    /\ df_response = <<>>
    /\ rendered = <<>>
    /\ queries = <<>>
    /\ err = "none"

\* The dashboard starts with its session acquired.
SessionBound ==
    /\ app = "cybersyn-financial"
    /\ ambient = <<>> /\ handshake_ok = TRUE
    /\ config_file = <<[default_connection |-> "dev", connections |-> {"dev"}]>>
    /\ spc = "done"
    /\ session = <<[profile |-> "dev"]>>
    /\ config_reads = 1 /\ connects = 1
    /\ serr = "none"

InitStocks ==
    stock_table \in StockTables /\ fx_table = FxSample /\ FinIdle /\ RagIdle /\ SessionBound
InitFx ==
    stock_table = StockSample /\ fx_table \in FxTables /\ FinIdle /\ RagIdle /\ SessionBound

SpecStocks == InitStocks /\ [][NextFin]_vars
SpecFx == InitFx /\ [][NextFin]_vars

\* ------------------------------------------- properties of the dashboard
\* The stock frame a call of load_data has just returned.
Returned == fpc = "loaded"

\* The rows of ticker t in a frame, and those dated before day d.
RowsOf(rows, t) == { r \in rows : r.TICKER = t }
Earlier(rows, t, d) == { r \in RowsOf(rows, t) : r.DATE < d }

\* C6: in the frame load_data returns, DAY_OVER_DAY_CHANGE of a ticker's first
\* date is NULL, and at every later date it is (close - previous) / previous with
\* `previous` the POSTMARKET_CLOSE of the same ticker at its nearest earlier date
\* (NULL, as in SQL, when one of the two closes is NULL); no other ticker's row
\* enters the value.
C6_DayOverDayPerTicker ==
    Returned =>
        \A r \in df_stocks.rows :
            LET before == Earlier(df_stocks.rows, r.TICKER, r.DATE) IN
            IF before = {}
            THEN r.DAY_OVER_DAY_CHANGE = NULL
            ELSE \E prev \in before :
                    /\ \A x \in before : x.DATE <= prev.DATE
                    /\ IF r.POSTMARKET_CLOSE = NULL \/ prev.POSTMARKET_CLOSE = NULL
                       THEN r.DAY_OVER_DAY_CHANGE = NULL
                       ELSE r.DAY_OVER_DAY_CHANGE =
                              << r.POSTMARKET_CLOSE[1] - prev.POSTMARKET_CLOSE[1],
                                 prev.POSTMARKET_CLOSE[1] >>

\* A ticker with two observations and another ticker's observation between them.
C6_Witness ==
    /\ Returned
    /\ \E a, b, c \in df_stocks.rows :
        /\ a.TICKER = b.TICKER /\ c.TICKER # a.TICKER
        /\ a.DATE < c.DATE /\ c.DATE < b.DATE
        /\ a.DAY_OVER_DAY_CHANGE = NULL
        /\ b.DAY_OVER_DAY_CHANGE # NULL
        /\ c.POSTMARKET_CLOSE # NULL /\ c.POSTMARKET_CLOSE # a.POSTMARKET_CLOSE

\* C7 (as claimed): the body of load_data is executed at most once, and every
\* call after the first returns the contents the first call returned.
C7_QueriesAtMostOnce ==
    /\ load_runs <= 1
    /\ (Returned /\ first_result # <<>>) =>
          df_stocks = first_result[1].stocks /\ df_fx = first_result[1].fx

\* C7 (amended): once a call of load_data has returned, its body is never executed
\* again and every later call returns the contents that call returned, also after
\* stock_prices has rewritten the DATE column of the frame it was given. A call
\* that raises stores nothing, and with nothing stored a script run that gets
\* past line 56, or fails there, has executed the body again.
C7_CachedAfterFirstReturn ==
    [][ /\ first_result # <<>> =>
             /\ load_runs' = load_runs
             /\ first_result' = first_result
             /\ fpc' = "loaded" =>
                   df_stocks' = first_result[1].stocks /\ df_fx' = first_result[1].fx
        /\ cache # <<>> => load_runs' = load_runs
        /\ ferr' = "QueryError" => cache' = <<>>
        /\ (cache = <<>> /\ fpc' \in {"loaded", "error"}) =>
              load_runs' = Min(load_runs + 1, MaxLoadRuns) ]_vars

\* A call answered from the cache after stock_prices has rewritten the frame of
\* an earlier run.
C7_Witness ==
    /\ Returned /\ rewritten
    /\ load_runs = 1 /\ first_result # <<>>
    /\ df_stocks.rows # {} /\ df_stocks.date_dtype = "object"
    /\ df_stocks = first_result[1].stocks

\* C10: no record of the FX frame load_data returns, and none charted by
\* fx_rates for any selection, is dated before 2019-01-01 or has a base currency
\* other than EUR.
FxRecordOk(r) == r.DATE >= MinFxDate /\ r.BASE_CURRENCY_ID = "EUR"

C10_FxFilterHolds ==
    /\ cache # <<>> => \A r \in cache[1].fx : FxRecordOk(r)
    /\ \A r \in df_fx : FxRecordOk(r)
    /\ chart.page = "fx" => \A r \in chart.rows : FxRecordOk(r)

\* fx_rates has charted a record with nothing selected, from a table that also
\* holds a EUR record dated before 2019-01-01.
C10_Witness ==
    /\ chart.page = "fx" /\ chart.selection = {} /\ chart.rows # {}
    /\ \E r \in fx_table : r.BASE_CURRENCY_ID = "EUR" /\ r.DATE < MinFxDate

\* ==================================================== session acquisition
\* llm-rag-demo/app.py 7-16, cybersyn-financial/app.py 16-25,
\* example-streamlit-app/app.py 18-27: the same statements in the three apps.
Apps == {"llm-rag-demo", "cybersyn-financial", "example-streamlit-app"}

Profiles == {"dev", "prod"}

\* The contents ../config.toml may have: default_connection names a profile or
\* is missing ("none"); any set of profiles is defined under [connections].
Configs ==
    { [default_connection |-> d, connections |-> c] :
        d \in Profiles \cup {"none"}, c \in SUBSET Profiles }

AmbientSession == [profile |-> "ambient"]

\* config["options"]["default_connection"], config["connections"][...]: the
\* profile whose parameters are used, <<>> when a key is missing (KeyError).
AnyProfile(cfg) ==
    IF cfg.connections = {} THEN <<>>
    ELSE IF cfg.default_connection \in cfg.connections THEN <<cfg.default_connection>>
    ELSE <<CHOOSE c \in cfg.connections : TRUE>>
ConnectionParams(cfg) ==
    IF cfg.default_connection = "none" THEN <<>>
    ELSE IF cfg.default_connection \notin cfg.connections THEN <<>>
    ELSE <<cfg.default_connection>>

InitSession ==
    /\ app \in Apps
    /\ ambient \in {<<>>, <<AmbientSession>>}
    /\ config_file \in {<<>>} \cup { <<c>> : c \in Configs }
    /\ handshake_ok \in BOOLEAN
    /\ spc = "try"
    /\ session = <<>>
    /\ config_reads = 0
    /\ connects = 0
    /\ serr = "none"
    /\ docs_chunks_table = <<>>
    /\ num_chunks = 3
    /\ question = <<>>
    /\ model = "mixtral-8x7b"
    /\ use_rag = 0
    /\ pc = "start"
    /\ df_rows = <<>>
    /\ prompt_context = <<>>
    /\ relative_path = ""
    /\ url_link = <<>>
    /\ prompt = <<>>
    /\ df_response = <<>>
    /\ rendered = <<>>
    /\ queries = <<>>
    /\ err = "none"
    /\ stock_table = {} /\ fx_table = {}
    /\ cache = <<>>
    /\ df_stocks = [date_dtype |-> "object", rows |-> {}]
    /\ df_fx = {}
    /\ fpc = "start"
    /\ chart = [page |-> "none", selection |-> {}, rows |-> {}]
    /\ load_runs = 0
    /\ first_result = <<>>
    /\ ferr = "none"
    /\ rewritten = FALSE

\* try: session = get_active_session(); any exception enters the except block.
GetActiveSession ==
    /\ spc = "try"
    /\ IF ambient # <<>>
       THEN session' = ambient /\ spc' = "done"
       ELSE session' = session /\ spc' = "except"
    /\ UNCHANGED <<app, ambient, config_file, handshake_ok, config_reads, connects, serr>>
    /\ UNCHANGED <<ragvars, finvars>>

\* except: open("../config.toml"), tomli.load and the two lookups.
ReadConfig ==
    /\ spc = "except"
    /\ config_reads' = config_reads + 1
    /\ IF config_file = <<>>
       THEN serr' = "FileNotFoundError" /\ spc' = "error"
       ELSE IF ConnectionParams(config_file[1]) = <<>>
       THEN serr' = "KeyError" /\ spc' = "error"
       ELSE serr' = "none" /\ spc' = "create"
    /\ UNCHANGED <<app, ambient, config_file, handshake_ok, session, connects>>
    /\ UNCHANGED <<ragvars, finvars>>

\* session = Session.builder.configs(connection_params).create()
CreateSession ==
    /\ spc = "create"
    /\ connects' = connects + 1
    /\ IF handshake_ok
       THEN /\ session' = <<[profile |-> ConnectionParams(config_file[1])[1]]>>
            /\ spc' = "done"
            /\ serr' = "none"
       ELSE /\ serr' = "ConnectionError"
            /\ spc' = "error"
            /\ session' = session
    /\ UNCHANGED <<app, ambient, config_file, handshake_ok, config_reads>>
    /\ UNCHANGED <<ragvars, finvars>>

NextSession ==
    \/ GetActiveSession
    \/ ReadConfig
    \/ CreateSession

SpecSession == InitSession /\ [][NextSession]_vars

\* The exceptions the startup raises for a missing file or a missing key.
ConfigError == {"FileNotFoundError", "KeyError"}

ProfileDefined(cfg) ==
    cfg.default_connection # "none" /\ cfg.default_connection \in cfg.connections

\* C8: with an ambient session the startup binds it and never opens the
\* configuration file; without one it opens the file once and connects at most
\* once: the startup ends in a ConfigError if the file or the default profile is
\* missing, in a ConnectionError if the handshake fails, in both cases with no
\* session bound, and otherwise with one new session of the default profile.
C8_SessionAcquisition ==
    /\ config_reads <= 1 /\ connects <= 1
    /\ ambient # <<>> =>
          /\ config_reads = 0 /\ connects = 0 /\ spc \in {"try", "done"}
          /\ spc = "done" => session = ambient
    /\ (ambient = <<>> /\ spc \in {"done", "error"}) =>
          /\ config_reads = 1
          /\ IF config_file = <<>> \/ ~ProfileDefined(config_file[1])
             THEN /\ spc = "error" /\ serr \in ConfigError
                  /\ session = <<>> /\ connects = 0
             ELSE IF ~handshake_ok
             THEN /\ spc = "error" /\ serr = "ConnectionError"
                  /\ session = <<>> /\ connects = 1
             ELSE /\ spc = "done" /\ serr = "none" /\ connects = 1
                  /\ session = <<[profile |-> config_file[1].default_connection]>>

\* A startup without ambient session whose default profile is not defined,
\* although another profile is.
C8_Witness ==
    /\ ambient = <<>> /\ spc = "error" /\ serr = "KeyError"
    /\ config_file # <<>> /\ config_file[1].connections # {}
    /\ session = <<>>

====
